---- MODULE Spec2Model ----
(***************************************************************************)
(* The decoder of ser-not-de (src/src/protocol/deserializer.rs) as a state *)
(* machine.  A run takes a value of a known shape, encodes it, optionally  *)
(* damages the encoding (cut, one delimiter replaced, bytes appended), and *)
(* decodes it with from_bytes.  The decoder's recursion is an explicit     *)
(* stack of frames; every step is one call of the source.                  *)
(***************************************************************************)
EXTENDS Integers, Sequences, FiniteSets, TLC

(* ------------------------------ bounds --------------------------------- *)
\* Bytes are 0..MaxByte: the ten delimiters, and the plain bytes 0 and above.
MaxByte == 11
\* Longest string, byte buffer, sequence or map of a generated value.
MaxLen == 2
\* Longest unframed buffer handed to from_bytes directly.
RawLen == 2
\* Longest run of bytes appended after a complete encoding.
MaxTrail == 1

Byte == 0..MaxByte

(* ----------------------- wire format constants ------------------------- *)
\* The ten delimiters of serializer.rs: fixed bytes, distinct from each other.
STRING_DELIMITER == 1
BYTE_DELIMITER == 2
UNIT == 3
SEQ_DELIMITER == 4
SEQ_VALUE_DELIMITER == 5
MAP_DELIMITER == 6
MAP_KEY_DELIMITER == 7
MAP_VALUE_DELIMITER == 8
MAP_VALUE_SEPARATOR == 9
ENUM_DELIMITER == 10

(* ------------------------------ shapes --------------------------------- *)
\* A shape is a tuple: <<"U8">>, <<"Option", t>>, <<"Seq", t>>, <<"Map", k, v>>,
\* <<"Enum">>.  The one enum has a unit variant 0 and a newtype variant 1.
TBool == <<"Bool">>
TU8 == <<"U8">>
TU16 == <<"U16">>
TU32 == <<"U32">>
TF32 == <<"F32">>
TF64 == <<"F64">>
TChar == <<"Char">>
TStr == <<"Str">>
TBytes == <<"Bytes">>
TUnit == <<"Unit">>
TEnum == <<"Enum">>
TOption(t) == <<"Option", t>>
TSeq(t) == <<"Seq", t>>
TMap(k, v) == <<"Map", k, v>>

\* The payload shape of each variant of the enum: <<>> for a unit variant.
Variants == << <<>>, <<TBool>> >>

\* The shapes from_bytes is called with.
Shapes ==
  << TBool, TU8, TU16, TU32, TF32, TF64, TChar, TBytes, TStr, TUnit, TEnum,
     TOption(TU8), TOption(TUnit), TOption(TSeq(TBool)),
     TSeq(TU8), TSeq(TStr), TSeq(TSeq(TBool)), TSeq(TOption(TBool)),
     TMap(TBool, TBool), TMap(TBool, TSeq(TEnum)) >>

(* --------------------------- little endian ----------------------------- *)
RECURSIVE from_le_bytes(_)
from_le_bytes(bs) ==
  IF bs = <<>> THEN 0 ELSE Head(bs) + 256 * from_le_bytes(Tail(bs))

RECURSIVE Pow256(_)
Pow256(i) == IF i = 0 THEN 1 ELSE 256 * Pow256(i - 1)

to_le_bytes(v, n) == [i \in 1..n |-> (v \div Pow256(i - 1)) % 256]

\* A 64-bit pattern is kept as its two 32-bit words <<low, high>>.
from_le_bytes64(bs) ==
  << from_le_bytes(SubSeq(bs, 1, 4)), from_le_bytes(SubSeq(bs, 5, 8)) >>

to_le_bytes64(w) == to_le_bytes(w[1], 4) \o to_le_bytes(w[2], 4)

\* std::char::from_u32: a scalar value is at most 0x10FFFF and no surrogate.
char_from_u32(v) ==
  IF v > 1114111 \/ (v >= 55296 /\ v <= 57343)
    THEN [some |-> FALSE, val |-> 0]
    ELSE [some |-> TRUE, val |-> v]

\* String::from_utf8 on bytes below 0x80 always succeeds; a byte of
\* 0x80..0xFF needs a well-formed multi-byte sequence.
RECURSIVE from_utf8_ok(_)
from_utf8_ok(bs) ==
  IF bs = <<>> THEN TRUE
  ELSE LET b == Head(bs)
           Cont(i) == Len(bs) >= i /\ bs[i] >= 128 /\ bs[i] <= 191
           Rest(i) == SubSeq(bs, i + 1, Len(bs))
       IN  IF b < 128 THEN from_utf8_ok(Tail(bs))
           ELSE IF b >= 194 /\ b <= 223 THEN Cont(2) /\ from_utf8_ok(Rest(2))
           ELSE IF b >= 224 /\ b <= 239
             THEN /\ Cont(2) /\ Cont(3)
                  /\ (b = 224 => bs[2] >= 160)
                  /\ (b = 237 => bs[2] <= 159)
                  /\ from_utf8_ok(Rest(3))
           ELSE IF b >= 240 /\ b <= 244
             THEN /\ Cont(2) /\ Cont(3) /\ Cont(4)
                  /\ (b = 240 => bs[2] >= 144)
                  /\ (b = 244 => bs[2] <= 143)
                  /\ from_utf8_ok(Rest(4))
           ELSE FALSE

(* ---------------------------- byte cursor ------------------------------ *)
\* The result of a cursor or parser call on the remaining input d:
\* tag "ok" (val, and the input left in data), "err" (err) or "panic".
\* calls lists the cursor calls made: the input before, "ok" with the byte
\* returned or the name of the error or "panic", and the input after.
CallOf(op, n, d, tag, v, d2) ==
  [op |-> op, n |-> n, before |-> d, tag |-> tag, val |-> v, after |-> d2]

POk(v, d2, calls) ==
  [tag |-> "ok", err |-> "", val |-> v, data |-> d2, calls |-> calls]

PErr(e, d2, calls) ==
  [tag |-> "err", err |-> e, val |-> 0, data |-> d2, calls |-> calls]

PPanic(why, d2, calls) ==
  [tag |-> "panic", err |-> why, val |-> 0, data |-> d2, calls |-> calls]

peek_byte(d) ==
  IF d = <<>>
    THEN PErr("NoByte", d, << CallOf("peek_byte", 0, d, "NoByte", 0, d) >>)
    ELSE POk(Head(d), d, << CallOf("peek_byte", 0, d, "ok", Head(d), d) >>)

eat_byte(d) ==
  LET p == peek_byte(d) IN
  IF p.tag # "ok"
    THEN PErr(p.err, d,
              p.calls \o << CallOf("eat_byte", 1, d, p.err, 0, d) >>)
    ELSE POk(p.val, Tail(d),
             p.calls \o << CallOf("eat_byte", 1, d, "ok", p.val, Tail(d)) >>)

\* &self.data[..n] panics when n exceeds the length of the slice.
eat_bytes(d, n) ==
  IF n > Len(d)
    THEN PPanic("slice index out of range", d,
                << CallOf("eat_bytes", n, d, "panic", 0, d) >>)
    ELSE POk(SubSeq(d, 1, n), SubSeq(d, n + 1, Len(d)),
             << CallOf("eat_bytes", n, d, "ok", 0, SubSeq(d, n + 1, Len(d))) >>)

(* -------------------------- primitive parsers -------------------------- *)
parse_bool(d) ==
  LET e == eat_byte(d) IN
  IF e.tag # "ok" THEN e ELSE POk(e.val # 0, e.data, e.calls)

\* n is size_of::<T>(); the try_into of a value of T's own width succeeds.
parse_unsigned(d, n) ==
  IF Len(d) < n THEN PErr("UnexpectedEOF", d, <<>>)
  ELSE IF n = 1
    THEN LET e == eat_byte(d) IN
         IF e.tag # "ok" THEN e
         ELSE POk(from_le_bytes(<< e.val >>), e.data, e.calls)
  ELSE IF n = 2 \/ n = 4
    THEN LET e == eat_bytes(d, n) IN
         IF e.tag # "ok" THEN e
         ELSE POk(from_le_bytes(e.val), e.data, e.calls)
  ELSE IF n = 8
    THEN LET e == eat_bytes(d, n) IN
         IF e.tag # "ok" THEN e
         ELSE POk(from_le_bytes64(e.val), e.data, e.calls)
  ELSE PErr("InvalidTypeSize", d, <<>>)

\* A float is its bit pattern: from_le_bytes reinterprets, it does not round.
parse_f32(d) ==
  LET e == eat_bytes(d, 4) IN
  IF e.tag # "ok" THEN e ELSE POk(from_le_bytes(e.val), e.data, e.calls)

parse_f64(d) ==
  LET e == eat_bytes(d, 8) IN
  IF e.tag # "ok" THEN e ELSE POk(from_le_bytes64(e.val), e.data, e.calls)

\* from_u32(value).unwrap() panics on None.
parse_char(d) ==
  LET u == parse_unsigned(d, 4) IN
  IF u.tag # "ok" THEN u
  ELSE LET c == char_from_u32(u.val) IN
       IF c.some THEN POk(c.val, u.data, u.calls)
       ELSE PPanic("unwrap on None", u.data, u.calls)

\* The scan loops of parse_str and parse_bytes: bytes are eaten one at a
\* time and pushed until the terminator, which is eaten and not pushed.
RECURSIVE ScanUntil(_, _, _, _)
ScanUntil(d, stop, bytes, calls) ==
  LET e == eat_byte(d) IN
  IF e.tag # "ok" THEN PErr(e.err, e.data, calls \o e.calls)
  ELSE IF e.val = stop THEN POk(bytes, e.data, calls \o e.calls)
  ELSE ScanUntil(e.data, stop, Append(bytes, e.val), calls \o e.calls)

parse_str(d) ==
  LET s == ScanUntil(d, STRING_DELIMITER, <<>>, <<>>) IN
  IF s.tag # "ok" THEN s
  ELSE IF from_utf8_ok(s.val) THEN s
  ELSE PErr("ConversionError", s.data, s.calls)

parse_bytes(d) == ScanUntil(d, STRING_DELIMITER, <<>>, <<>>)

(* ------------------------------ encoder -------------------------------- *)
\* The encoding of a value, each byte marked as a delimiter (d) or payload.
Delim(b) == << [b |-> b, d |-> TRUE] >>

Payload(bs) == [i \in 1..Len(bs) |-> [b |-> bs[i], d |-> FALSE]]

\* Values: a Bool is a BOOLEAN, an integer or float its number (bit pattern),
\* a Str or Bytes its bytes, Unit "unit", an Option <<>> or <<x>>, a Seq the
\* sequence of its elements, a Map the sequence of its <<key, value>>
\* entries, an Enum <<index>> or <<index, payload>>.
RECURSIVE serialize(_, _)
RECURSIVE serialize_seq(_, _, _)
RECURSIVE serialize_map(_, _, _, _)

serialize_seq(t, vs, first) ==
  IF vs = <<>> THEN <<>>
  ELSE (IF first THEN <<>> ELSE Delim(SEQ_VALUE_DELIMITER))
       \o serialize(t, Head(vs)) \o serialize_seq(t, Tail(vs), FALSE)

serialize_map(kt, vt, es, first) ==
  IF es = <<>> THEN <<>>
  ELSE (IF first THEN <<>> ELSE Delim(MAP_VALUE_SEPARATOR))
       \o Delim(MAP_KEY_DELIMITER) \o serialize(kt, Head(es)[1])
       \o Delim(MAP_KEY_DELIMITER)
       \o Delim(MAP_VALUE_DELIMITER) \o serialize(vt, Head(es)[2])
       \o Delim(MAP_VALUE_DELIMITER)
       \o serialize_map(kt, vt, Tail(es), FALSE)

serialize(t, v) ==
  CASE t[1] = "Bool" -> Payload(<< IF v THEN 1 ELSE 0 >>)
    [] t[1] = "U8" -> Payload(to_le_bytes(v, 1))
    [] t[1] = "U16" -> Payload(to_le_bytes(v, 2))
    [] t[1] \in {"U32", "F32", "Char"} -> Payload(to_le_bytes(v, 4))
    [] t[1] = "F64" -> Payload(to_le_bytes64(v))
    [] t[1] = "Str" ->
         Delim(STRING_DELIMITER) \o Payload(v) \o Delim(STRING_DELIMITER)
    [] t[1] = "Bytes" ->
         Delim(BYTE_DELIMITER) \o Payload(v) \o Delim(BYTE_DELIMITER)
    [] t[1] = "Unit" -> Delim(UNIT)
    [] t[1] = "Option" ->
         IF v = <<>> THEN Delim(UNIT) ELSE serialize(t[2], v[1])
    [] t[1] = "Seq" ->
         Delim(SEQ_DELIMITER) \o serialize_seq(t[2], v, TRUE)
         \o Delim(SEQ_DELIMITER)
    [] t[1] = "Map" ->
         Delim(MAP_DELIMITER) \o serialize_map(t[2], t[3], v, TRUE)
         \o Delim(MAP_DELIMITER)
    [] t[1] = "Enum" ->
         Delim(ENUM_DELIMITER) \o Payload(to_le_bytes(v[1], 4))
         \o (IF Variants[v[1] + 1] = <<>> THEN <<>>
             ELSE serialize(Variants[v[1] + 1][1], v[2]))

to_bytes(t, v) == LET m == serialize(t, v) IN [i \in 1..Len(m) |-> m[i].b]

\* The positions of the delimiter bytes in to_bytes(t, v).
DelimiterPositions(t, v) ==
  LET m == serialize(t, v) IN {i \in 1..Len(m) : m[i].d}

(* --------------------------- generated inputs -------------------------- *)
BytesUpTo(n) == UNION {IF k = 0 THEN {<<>>} ELSE [1..k -> Byte] : k \in 0..n}

\* The bytes that follow an encoding are drawn from these.
TrailBytes == {0, STRING_DELIMITER, SEQ_DELIMITER}

TrailsUpTo(n) == UNION {[1..k -> TrailBytes] : k \in 1..n}

\* The bytes a four- or eight-byte value is built of.
WideBytes == {0, 1, MaxByte}

WideBuffers == [1..4 -> WideBytes]

Words == {from_le_bytes(bs) : bs \in WideBuffers}

\* The values of shape t within a budget of n: a string or byte buffer of at
\* most n bytes, a sequence or map of k <= n items within a budget of n - k.
RECURSIVE Values(_, _)
RECURSIVE SeqItems(_, _, _)
RECURSIVE MapItems(_, _, _, _)

SeqItems(t, k, n) == IF k = 0 THEN {<<>>} ELSE [1..k -> Values(t, n - k)]

MapItems(kt, vt, k, n) ==
  IF k = 0 THEN {<<>>}
  ELSE [1..k -> Values(kt, n - k) \X Values(vt, n - k)]

Values(t, n) ==
  CASE t[1] = "Bool" -> BOOLEAN
    [] t[1] = "U8" -> Byte
    [] t[1] = "U16" -> {from_le_bytes(bs) : bs \in [1..2 -> Byte]}
    [] t[1] \in {"U32", "F32"} -> Words
    [] t[1] = "F64" ->
         {from_le_bytes64(bs) : bs \in [1..8 -> {0, MaxByte}]}
    [] t[1] = "Char" -> {w \in Words : char_from_u32(w).some}
    [] t[1] \in {"Str", "Bytes"} -> BytesUpTo(n)
    [] t[1] = "Unit" -> {"unit"}
    [] t[1] = "Option" -> {<<>>} \cup {<< x >> : x \in Values(t[2], n)}
    [] t[1] = "Seq" -> UNION {SeqItems(t[2], k, n) : k \in 0..n}
    [] t[1] = "Map" -> UNION {MapItems(t[2], t[3], k, n) : k \in 0..n}
    [] t[1] = "Enum" ->
         UNION {IF Variants[i] = <<>> THEN {<< i - 1 >>}
                ELSE {<< i - 1, x >> : x \in Values(Variants[i][1], n)}
                : i \in 1..Len(Variants)}

(* ------------------------------- state --------------------------------- *)
VARIABLES
  shape,    \* the type T of from_bytes::<T>
  value,    \* <<v>>: the value that was encoded; <<>> for an unframed buffer
  input,    \* the bytes handed to from_bytes
  mode,     \* "exact", "prefix", "corrupt", "trailing" or "raw"
  trail,    \* the bytes appended after the encoding
  phase,    \* "value", "bytes", "run" or "done"
  data,     \* CustomDeserializer.data: the input not yet consumed
  stack,    \* the calls in progress, innermost first
  ret,      \* <<v>>: the value the innermost finished call returned
  outcome,  \* <<"None">>, <<"Ok", v>>, <<"Err", e>> or <<"Panic", why>>
  calls     \* the cursor calls of the last step

vars ==
  << shape, value, input, mode, trail, phase, data, stack, ret, outcome,
     calls >>

Frame(k, t) ==
  [k |-> k, t |-> t, first |-> TRUE, acc |-> <<>>, key |-> <<>>, n |-> 0]

Init ==
  /\ \E i \in 1..Len(Shapes) :
       /\ shape = Shapes[i]
       /\ \/ /\ value \in {<< v >> : v \in Values(Shapes[i], MaxLen)}
             /\ phase = "value"
             /\ input = <<>>
             /\ mode = "exact"
          \/ /\ value = <<>>
             /\ phase = "bytes"
             /\ input \in BytesUpTo(RawLen) \cup WideBuffers
             /\ mode = "raw"
  /\ trail = <<>>
  /\ data = <<>>
  /\ stack = <<>>
  /\ ret = <<>>
  /\ outcome = << "None" >>
  /\ calls = <<>>

(* ------------------------- the caller's actions ------------------------ *)
Encode ==
  /\ phase = "value"
  /\ input' = to_bytes(shape, value[1])
  /\ phase' = "bytes"
  /\ UNCHANGED << shape, value, mode, trail, data, stack, ret, outcome, calls >>

\* The encoding is cut to a proper prefix.
Truncate ==
  /\ phase = "bytes" /\ mode = "exact"
  /\ \E k \in 0..(Len(input) - 1) : input' = SubSeq(input, 1, k)
  /\ mode' = "prefix"
  /\ UNCHANGED << shape, value, trail, phase, data, stack, ret, outcome, calls >>

\* One delimiter byte of the encoding is replaced by another byte.
Corrupt ==
  /\ phase = "bytes" /\ mode = "exact"
  /\ \E i \in DelimiterPositions(shape, value[1]) :
       \E b \in Byte \ {input[i]} : input' = [input EXCEPT ![i] = b]
  /\ mode' = "corrupt"
  /\ UNCHANGED << shape, value, trail, phase, data, stack, ret, outcome, calls >>

\* Bytes follow the encoding.
AppendTrailing ==
  /\ phase = "bytes" /\ mode = "exact"
  /\ \E t \in TrailsUpTo(MaxTrail) :
       /\ input' = input \o t
       /\ trail' = t
  /\ mode' = "trailing"
  /\ UNCHANGED << shape, value, phase, data, stack, ret, outcome, calls >>

(* ------------------------------ decoding ------------------------------- *)
\* What a step does: go on with a new stack and returned value, or fail.
Go(d, s, r, c) ==
  [tag |-> "go", data |-> d, stack |-> s, ret |-> r, err |-> "", calls |-> c]

Err(e, d, c) ==
  [tag |-> "err", data |-> d, stack |-> <<>>, ret |-> <<>>, err |-> e,
   calls |-> c]

\* The error or panic of a parser call p, passed on by `?`.
Fail(p) ==
  [tag |-> p.tag, data |-> p.data, stack |-> <<>>, ret |-> <<>>,
   err |-> p.err, calls |-> p.calls]

\* The step r is taken.  An error unwinds every call in progress; when the
\* outermost call returns, from_bytes returns Ok(deserialized).
Apply(r) ==
  /\ data' = r.data
  /\ calls' = r.calls
  /\ IF r.tag = "go"
       THEN /\ stack' = r.stack
            /\ IF r.stack = <<>>
                 THEN ret' = <<>> /\ phase' = "done"
                      /\ outcome' = << "Ok", r.ret[1] >>
                 ELSE ret' = r.ret /\ phase' = "run" /\ outcome' = outcome
       ELSE /\ stack' = <<>>
            /\ ret' = <<>>
            /\ phase' = "done"
            /\ outcome' = << IF r.tag = "err" THEN "Err" ELSE "Panic", r.err >>
  /\ UNCHANGED << shape, value, input, mode, trail >>

Top == Head(stack)

Rest == Tail(stack)

At(k) == phase = "run" /\ stack # <<>> /\ Top.k = k

AtDeserialize(name) == At("deserialize") /\ Top.t[1] = name

\* A primitive's deserialize_* method: parse, visit, return.
Visit(p) ==
  IF p.tag = "ok" THEN Go(p.data, Rest, << p.val >>, p.calls) ELSE Fail(p)

from_bytes ==
  /\ phase = "bytes"
  /\ phase' = "run"
  /\ data' = input
  /\ stack' = << Frame("deserialize", shape) >>
  /\ UNCHANGED << shape, value, input, mode, trail, ret, outcome, calls >>

deserialize_bool == AtDeserialize("Bool") /\ Apply(Visit(parse_bool(data)))

deserialize_u8 == AtDeserialize("U8") /\ Apply(Visit(parse_unsigned(data, 1)))

deserialize_u16 ==
  AtDeserialize("U16") /\ Apply(Visit(parse_unsigned(data, 2)))

deserialize_u32 ==
  AtDeserialize("U32") /\ Apply(Visit(parse_unsigned(data, 4)))

deserialize_f32 == AtDeserialize("F32") /\ Apply(Visit(parse_f32(data)))

deserialize_f64 == AtDeserialize("F64") /\ Apply(Visit(parse_f64(data)))

deserialize_char == AtDeserialize("Char") /\ Apply(Visit(parse_char(data)))

\* The first byte must be `open`, then `body` parses the rest.
Framed(open, body(_), e) ==
  LET u == parse_unsigned(data, 1) IN
  IF u.tag # "ok" THEN Fail(u)
  ELSE IF u.val # open THEN Err(e, u.data, u.calls)
  ELSE LET p == body(u.data) IN
       IF p.tag = "ok" THEN Go(p.data, Rest, << p.val >>, u.calls \o p.calls)
       ELSE Fail([p EXCEPT !.calls = u.calls \o p.calls])

deserialize_string ==
  /\ AtDeserialize("Str")
  /\ Apply(Framed(STRING_DELIMITER, parse_str, "ExpectedStringDelimiter"))

deserialize_byte_buf ==
  /\ AtDeserialize("Bytes")
  /\ Apply(Framed(BYTE_DELIMITER, parse_bytes, "ExpectedByteDelimiter"))

deserialize_unit ==
  /\ AtDeserialize("Unit")
  /\ Apply(LET u == parse_unsigned(data, 1) IN
           IF u.tag # "ok" THEN Fail(u)
           ELSE IF u.val # UNIT THEN Err("ExpectedUnit", u.data, u.calls)
           ELSE Go(u.data, Rest, << "unit" >>, u.calls))

\* deserialize_option with the first byte eaten in both arms.
deserialize_option_eats_marker ==
  /\ AtDeserialize("Option")
  /\ Apply(LET e == eat_byte(data) IN
           IF e.tag # "ok" THEN Fail(e)
           ELSE IF e.val = UNIT THEN Go(e.data, Rest, << <<>> >>, e.calls)
           ELSE Go(e.data,
                   << Frame("deserialize", Top.t[2]), Frame("visit_some", Top.t) >>
                     \o Rest,
                   <<>>, e.calls))

\* UNIT is eaten and the option is None; any other byte is left for T.
deserialize_option ==
  /\ AtDeserialize("Option")
  /\ Apply(LET p == peek_byte(data) IN
           IF p.tag # "ok" THEN Fail(p)
           ELSE IF p.val = UNIT
             THEN LET e == eat_byte(data) IN
                  IF e.tag # "ok" THEN Fail(e)
                  ELSE Go(e.data, Rest, << <<>> >>, p.calls \o e.calls)
           ELSE Go(data,
                   << Frame("deserialize", Top.t[2]), Frame("visit_some", Top.t) >>
                     \o Rest,
                   <<>>, p.calls))

\* visitor.visit_some(self): T's value, returned as Some.
visit_some ==
  /\ At("visit_some") /\ ret # <<>>
  /\ Apply(Go(data, Rest, << << ret[1] >> >>, <<>>))

\* The opening delimiter; then the visitor drives next_element_seed.
deserialize_seq ==
  /\ AtDeserialize("Seq")
  /\ Apply(LET u == parse_unsigned(data, 1) IN
           IF u.tag # "ok" THEN Fail(u)
           ELSE IF u.val # SEQ_DELIMITER
             THEN Err("ExpectedSeqDelimiter", u.data, u.calls)
           ELSE Go(u.data,
                   << Frame("visit_seq", Top.t), Frame("seq_end", Top.t) >>
                     \o Rest,
                   <<>>, u.calls))

\* next_element_seed with `first` left as it was.
next_element_seed_keeps_first ==
  /\ At("visit_seq")
  /\ Apply(LET acc == Top.acc \o ret
               p == peek_byte(data)
           IN  IF p.tag # "ok" THEN Fail(p)
               ELSE IF p.val = SEQ_DELIMITER
                 THEN Go(data, Rest, << acc >>, p.calls)
               ELSE LET e == IF Top.first THEN POk(0, data, <<>>)
                             ELSE eat_byte(data)
                    IN  IF e.tag # "ok" THEN Fail(e)
                        ELSE IF ~Top.first /\ e.val # SEQ_VALUE_DELIMITER
                          THEN Err("ExpectedSeqValueDelimiter", e.data,
                                   p.calls \o e.calls)
                        ELSE Go(e.data,
                                << Frame("deserialize", Top.t[2]),
                                   [Top EXCEPT !.acc = acc] >> \o Rest,
                                <<>>, p.calls \o e.calls))

\* One call by the visitor of a Vec, which pushes the element returned by
\* the previous call and stops at None.
next_element_seed ==
  /\ At("visit_seq")
  /\ Apply(LET acc == Top.acc \o ret
               p == peek_byte(data)
           IN  IF p.tag # "ok" THEN Fail(p)
               ELSE IF p.val = SEQ_DELIMITER
                 THEN Go(data, Rest, << acc >>, p.calls)
               ELSE LET e == IF Top.first THEN POk(0, data, <<>>)
                             ELSE eat_byte(data)
                    IN  IF e.tag # "ok" THEN Fail(e)
                        ELSE IF ~Top.first /\ e.val # SEQ_VALUE_DELIMITER
                          THEN Err("ExpectedSeqValueDelimiter", e.data,
                                   p.calls \o e.calls)
                        ELSE Go(e.data,
                                << Frame("deserialize", Top.t[2]),
                                   [Top EXCEPT !.first = FALSE, !.acc = acc] >>
                                  \o Rest,
                                <<>>, p.calls \o e.calls))

\* deserialize_seq_end with the closing delimiter peeked at, not eaten.
deserialize_seq_end_peeks ==
  /\ At("seq_end")
  /\ Apply(LET p == peek_byte(data) IN
           IF p.tag # "ok" THEN Fail(p)
           ELSE IF p.val # SEQ_DELIMITER
             THEN Err("ExpectedSeqDelimiter", p.data, p.calls)
           ELSE Go(p.data, Rest, ret, p.calls))

\* After visit_seq: the closing delimiter.
deserialize_seq_end ==
  /\ At("seq_end")
  /\ Apply(LET u == parse_unsigned(data, 1) IN
           IF u.tag # "ok" THEN Fail(u)
           ELSE IF u.val # SEQ_DELIMITER
             THEN Err("ExpectedSeqDelimiter", u.data, u.calls)
           ELSE Go(u.data, Rest, ret, u.calls))

deserialize_map ==
  /\ AtDeserialize("Map")
  /\ Apply(LET u == parse_unsigned(data, 1) IN
           IF u.tag # "ok" THEN Fail(u)
           ELSE IF u.val # MAP_DELIMITER
             THEN Err("ExpectedMapDelimiter", u.data, u.calls)
           ELSE Go(u.data,
                   << Frame("next_key", Top.t), Frame("map_end", Top.t) >>
                     \o Rest,
                   <<>>, u.calls))

\* next_key_seed up to the call of the key's deserializer.
next_key_seed ==
  /\ At("next_key")
  /\ Apply(LET p == peek_byte(data) IN
           IF p.tag # "ok" THEN Fail(p)
           ELSE IF p.val = MAP_DELIMITER
             THEN Go(data, Rest, << Top.acc >>, p.calls)
           ELSE LET e == IF Top.first THEN POk(0, data, <<>>)
                         ELSE eat_byte(data)
                IN  IF e.tag # "ok" THEN Fail(e)
                    ELSE IF ~Top.first /\ e.val # MAP_VALUE_SEPARATOR
                      THEN Err("ExpectedMapValueSeparator", e.data,
                               p.calls \o e.calls)
                    ELSE LET u == parse_unsigned(e.data, 1)
                             c == p.calls \o e.calls \o u.calls
                         IN  IF u.tag # "ok" THEN Fail([u EXCEPT !.calls = c])
                             ELSE IF u.val # MAP_KEY_DELIMITER
                               THEN Err("ExpectedMapKeyDelimiter", u.data, c)
                             ELSE Go(u.data,
                                     << Frame("deserialize", Top.t[2]),
                                        [Top EXCEPT !.k = "key_end",
                                                    !.first = FALSE] >>
                                       \o Rest,
                                     <<>>, c))

\* next_key_seed_end with any byte taken for the second MAP_KEY_DELIMITER.
next_key_seed_end_any_byte ==
  /\ At("key_end")
  /\ Apply(LET u == parse_unsigned(data, 1) IN
           IF u.tag # "ok" THEN Fail(u)
           ELSE Go(u.data,
                   << [Top EXCEPT !.k = "next_value", !.key = ret] >> \o Rest,
                   <<>>, u.calls))

\* next_key_seed after the key: the second MAP_KEY_DELIMITER.
next_key_seed_end ==
  /\ At("key_end")
  /\ Apply(LET u == parse_unsigned(data, 1) IN
           IF u.tag # "ok" THEN Fail(u)
           ELSE IF u.val # MAP_KEY_DELIMITER
             THEN Err("ExpectedMapKeyDelimiter", u.data, u.calls)
           ELSE Go(u.data,
                   << [Top EXCEPT !.k = "next_value", !.key = ret] >> \o Rest,
                   <<>>, u.calls))

\* next_value_seed up to the call of the value's deserializer.
next_value_seed ==
  /\ At("next_value")
  /\ Apply(LET e == eat_byte(data) IN
           IF e.tag # "ok" THEN Fail(e)
           ELSE IF e.val # MAP_VALUE_DELIMITER
             THEN Err("ExpectedMapValueDelimiter", e.data, e.calls)
           ELSE Go(e.data,
                   << Frame("deserialize", Top.t[3]),
                      [Top EXCEPT !.k = "value_end"] >> \o Rest,
                   <<>>, e.calls))

\* next_value_seed after the value; the visitor of a map keeps the entry.
next_value_seed_end ==
  /\ At("value_end")
  /\ Apply(LET e == eat_byte(data) IN
           IF e.tag # "ok" THEN Fail(e)
           ELSE IF e.val # MAP_VALUE_DELIMITER
             THEN Err("ExpectedMapValueDelimiter", e.data, e.calls)
           ELSE Go(e.data,
                   << [Top EXCEPT !.k = "next_key", !.key = <<>>,
                                  !.acc = Append(Top.acc, << Top.key[1], ret[1] >>)] >>
                     \o Rest,
                   <<>>, e.calls))

\* After visit_map: the closing delimiter.
deserialize_map_end ==
  /\ At("map_end")
  /\ Apply(LET u == parse_unsigned(data, 1) IN
           IF u.tag # "ok" THEN Fail(u)
           ELSE IF u.val # MAP_DELIMITER
             THEN Err("ExpectedMapDelimiter", u.data, u.calls)
           ELSE Go(u.data, Rest, ret, u.calls))

\* ENUM_DELIMITER, then variant_seed reads the index and the visitor of the
\* enum picks the variant: unit_variant or newtype_variant_seed.
deserialize_enum ==
  /\ AtDeserialize("Enum")
  /\ Apply(LET u == parse_unsigned(data, 1) IN
           IF u.tag # "ok" THEN Fail(u)
           ELSE IF u.val # ENUM_DELIMITER
             THEN Err("ExpectedEnumDelimiter", u.data, u.calls)
           ELSE LET key == parse_unsigned(u.data, 4)
                    c == u.calls \o key.calls
                IN  IF key.tag # "ok" THEN Fail([key EXCEPT !.calls = c])
                    ELSE IF key.val >= Len(Variants)
                      THEN Err("Custom", key.data, c)
                    ELSE IF Variants[key.val + 1] = <<>>
                      THEN Go(key.data, Rest, << << key.val >> >>, c)
                    ELSE Go(key.data,
                            << Frame("deserialize", Variants[key.val + 1][1]),
                               [Frame("newtype_variant", Top.t)
                                  EXCEPT !.n = key.val] >> \o Rest,
                            <<>>, c))

\* newtype_variant_seed returns: the variant holds the payload.
newtype_variant_seed ==
  /\ At("newtype_variant") /\ ret # <<>>
  /\ Apply(Go(data, Rest, << << Top.n, ret[1] >> >>, <<>>))

Next ==
  \/ Encode
  \/ Truncate
  \/ Corrupt
  \/ AppendTrailing
  \/ from_bytes
  \/ deserialize_bool
  \/ deserialize_u8
  \/ deserialize_u16
  \/ deserialize_u32
  \/ deserialize_f32
  \/ deserialize_f64
  \/ deserialize_char
  \/ deserialize_string
  \/ deserialize_byte_buf
  \/ deserialize_unit
  \/ deserialize_option
  \/ visit_some
  \/ deserialize_seq
  \/ next_element_seed
  \/ deserialize_seq_end
  \/ deserialize_map
  \/ next_key_seed
  \/ next_key_seed_end
  \/ next_value_seed
  \/ next_value_seed_end
  \/ deserialize_map_end
  \/ deserialize_enum
  \/ newtype_variant_seed

Spec == Init /\ [][Next]_vars

(* ------------------------------- claims -------------------------------- *)
Done == phase = "done"

Succeeded(v) == outcome[1] = "Ok" /\ outcome[2] = v

Failed(errors) == outcome[1] = "Err" /\ outcome[2] \in errors

EndOfInput == {"NoByte", "UnexpectedEOF"}

ExpectedDelimiter ==
  {"ExpectedStringDelimiter", "ExpectedByteDelimiter", "ExpectedUnit",
   "ExpectedSeqDelimiter", "ExpectedSeqValueDelimiter", "ExpectedMapDelimiter",
   "ExpectedMapKeyDelimiter", "ExpectedMapValueDelimiter",
   "ExpectedMapValueSeparator", "ExpectedEnumDelimiter"}

\* C1: decoding the encoding of a value, with the value's shape, succeeds
\* and yields the value.
C1_RoundTrip == (Done /\ mode = "exact") => Succeeded(value[1])

\* C2: decoding a proper prefix of an encoding ends in an end-of-input or
\* Expected<Delimiter> error: it neither succeeds nor panics.
C2_TruncationSafety ==
  (Done /\ mode = "prefix") => Failed(EndOfInput \cup ExpectedDelimiter)

\* C3: decoding an encoding with one delimiter byte replaced by another
\* byte fails with an error.
C3_DelimiterRejection == (Done /\ mode = "corrupt") => outcome[1] = "Err"

\* The index of the first BYTE_DELIMITER after the opening one, or 0.
FirstByteDelimiter(bs) ==
  LET at == {i \in 2..Len(bs) : bs[i] = BYTE_DELIMITER} IN
  IF at = {} THEN 0 ELSE CHOOSE i \in at : \A j \in at : i <= j

\* C4: a byte buffer that opens with BYTE_DELIMITER decodes to the bytes
\* before the next BYTE_DELIMITER, which is consumed and nothing after it.
C4_BytesEndAtByteDelimiter ==
  (/\ Done /\ shape = TBytes /\ input # <<>>
   /\ Head(input) = BYTE_DELIMITER /\ FirstByteDelimiter(input) # 0)
  => LET j == FirstByteDelimiter(input) IN
     /\ Succeeded(SubSeq(input, 2, j - 1))
     /\ data = SubSeq(input, j + 1, Len(input))

\* C5: four bytes that are no Unicode scalar value decode, as a Char, to
\* the error InvalidCodePoint.
C5_InvalidCodePointIsAnError ==
  (/\ Done /\ shape = TChar /\ Len(input) >= 4
   /\ ~char_from_u32(from_le_bytes(SubSeq(input, 1, 4))).some)
  => Failed({"InvalidCodePoint"})

\* The value v is returned by the innermost call in progress.
Returned(v) ==
  IF Rest = <<>> THEN Done' /\ outcome' = << "Ok", v >>
  ELSE phase' = "run" /\ stack' = Rest /\ ret' = << v >>

C6_OptionStep ==
  /\ AtDeserialize("Option") =>
       IF data = <<>> THEN Done' /\ outcome' = << "Err", "NoByte" >>
       ELSE IF Head(data) = UNIT
         THEN data' = Tail(data) /\ Returned(<<>>)
       ELSE /\ data' = data
            /\ phase' = "run"
            /\ Len(stack') = Len(stack) + 1
            /\ stack'[1].k = "deserialize" /\ stack'[1].t = Top.t[2]
            /\ SubSeq(stack', 3, Len(stack')) = Rest
  /\ (At("visit_some") /\ ret # <<>>) => (data' = data /\ Returned(<< ret[1] >>))

C6_OptionOfU8 ==
  (Done /\ shape = TOption(TU8)) =>
    IF input = <<>> THEN Failed({"NoByte"})
    ELSE IF Head(input) = UNIT THEN Succeeded(<<>>) /\ data = Tail(input)
    ELSE Succeeded(<< Head(input) >>) /\ data = Tail(input)

C6_OptionOfUnit ==
  (Done /\ shape = TOption(TUnit)) =>
    IF input = <<>> THEN Failed({"NoByte"})
    ELSE IF Head(input) = UNIT THEN Succeeded(<<>>) /\ data = Tail(input)
    ELSE Failed({"ExpectedUnit"})

\* C6: an option whose next byte is UNIT is None and that one byte is
\* consumed; on any other byte nothing is consumed, T is decoded from the
\* same position and the option is Some of T's value; on an empty buffer
\* the decode ends in an end-of-input error.
C6_OptionDecode ==
  [](C6_OptionOfU8 /\ C6_OptionOfUnit) /\ [][C6_OptionStep]_vars

\* An Option<u8> decoded from a buffer that starts with a byte other than
\* UNIT: Some of that byte.
C6_Witness ==
  /\ Done /\ shape = TOption(TU8) /\ Len(input) = 2
  /\ Head(input) # UNIT /\ Succeeded(<< Head(input) >>) /\ data = Tail(input)

\* C7: decoding the encoding of a sequence, whatever follows it, yields
\* the sequence and consumes the encoding and nothing more.
C7_SeqSelfTerminating ==
  (Done /\ shape[1] = "Seq" /\ mode \in {"exact", "trailing"}) =>
    (Succeeded(value[1]) /\ data = trail)

\* C8: a buffer that is SEQ_DELIMITER, SEQ_DELIMITER decodes as a sequence
\* to the empty sequence, MAP_DELIMITER, MAP_DELIMITER as a map to the empty
\* map; both bytes are consumed, and no byte that follows them.
C8_EmptyContainers ==
  (/\ Done /\ Len(input) >= 2
   /\ \/ shape[1] = "Seq" /\ input[1] = SEQ_DELIMITER /\ input[2] = SEQ_DELIMITER
      \/ shape[1] = "Map" /\ input[1] = MAP_DELIMITER /\ input[2] = MAP_DELIMITER)
  => (Succeeded(<<>>) /\ data = SubSeq(input, 3, Len(input)))

\* The two delimiters of an empty sequence, decoded and consumed.
C8_Witness ==
  /\ Done /\ shape = TSeq(TU8) /\ input = << SEQ_DELIMITER, SEQ_DELIMITER >>
  /\ Succeeded(<<>>) /\ data = <<>>

\* C9: decoding an encoding followed by more bytes yields the value and
\* leaves exactly those bytes unconsumed.
C9_TrailingBytesLeft ==
  (Done /\ mode = "trailing") => (Succeeded(value[1]) /\ data = trail)

\* C10: peek_byte returns the next byte and leaves the cursor, or fails
\* with an end-of-input error on an empty buffer; eat_byte advances by one
\* byte; eat_bytes(n) advances by n bytes, or fails with an end-of-input
\* error and leaves the cursor when fewer than n bytes remain.
C10_CursorContract ==
  \A i \in 1..Len(calls) :
    LET c == calls[i] IN
    /\ c.op = "peek_byte" =>
         /\ c.after = c.before
         /\ IF c.before = <<>> THEN c.tag \in EndOfInput
            ELSE c.tag = "ok" /\ c.val = Head(c.before)
    /\ c.op = "eat_byte" =>
         IF c.before = <<>> THEN c.tag \in EndOfInput /\ c.after = c.before
         ELSE c.tag = "ok" /\ c.val = Head(c.before) /\ c.after = Tail(c.before)
    /\ c.op = "eat_bytes" =>
         IF Len(c.before) < c.n
           THEN c.tag \in EndOfInput /\ c.after = c.before
           ELSE c.tag = "ok" /\ c.after = SubSeq(c.before, c.n + 1, Len(c.before))

\* The decode stops with the error e.
Stops(e) == Done' /\ outcome' = << "Err", e >>

\* The decode stops because the input ran out.
RanOut == Done' /\ outcome'[1] = "Err" /\ outcome'[2] \in EndOfInput

\* The step eats the byte b, or stops: at the end of the input, or with the
\* error e when the next byte is another one.
Requires(b, e) ==
  IF data = <<>> THEN RanOut
  ELSE IF Head(data) # b THEN Stops(e)
  ELSE data' = Tail(data) /\ phase' = "run"

\* The step calls the deserializer of t on behalf of the frame kind k.
Calls(t, k) ==
  /\ Len(stack') = Len(stack) + 1
  /\ stack'[1].k = "deserialize" /\ stack'[1].t = t
  /\ stack'[2].k = k
  /\ SubSeq(stack', 3, Len(stack')) = Rest

\* One step of the decode of a map.
C11_MapStep ==
  /\ AtDeserialize("Map") =>
       /\ Requires(MAP_DELIMITER, "ExpectedMapDelimiter")
       /\ phase' = "run" =>
            /\ stack'[1].k = "next_key" /\ stack'[1].first
            /\ stack'[1].acc = <<>>
            /\ stack'[2].k = "map_end"
            /\ SubSeq(stack', 3, Len(stack')) = Rest
  /\ At("next_key") =>
       IF data = <<>> THEN RanOut
       ELSE IF Head(data) = MAP_DELIMITER
         THEN /\ data' = data /\ stack' = Rest /\ ret' = << Top.acc >>
              /\ Rest # <<>> /\ Rest[1].k = "map_end"
       ELSE IF ~Top.first /\ Head(data) # MAP_VALUE_SEPARATOR
         THEN Stops("ExpectedMapValueSeparator")
       ELSE LET d == IF Top.first THEN data ELSE Tail(data) IN
            IF d = <<>> THEN RanOut
            ELSE IF Head(d) # MAP_KEY_DELIMITER
              THEN Stops("ExpectedMapKeyDelimiter")
            ELSE /\ data' = Tail(d)
                 /\ Calls(Top.t[2], "key_end")
                 /\ ~stack'[2].first /\ stack'[2].acc = Top.acc
  /\ At("key_end") =>
       /\ Requires(MAP_KEY_DELIMITER, "ExpectedMapKeyDelimiter")
       /\ phase' = "run" =>
            /\ stack' = << [Top EXCEPT !.k = "next_value", !.key = ret] >>
                           \o Rest
  /\ At("next_value") =>
       /\ Requires(MAP_VALUE_DELIMITER, "ExpectedMapValueDelimiter")
       /\ phase' = "run" =>
            /\ Calls(Top.t[3], "value_end")
            /\ stack'[2].key = Top.key /\ stack'[2].acc = Top.acc
  /\ At("value_end") =>
       /\ Requires(MAP_VALUE_DELIMITER, "ExpectedMapValueDelimiter")
       /\ phase' = "run" =>
            /\ Len(stack') = Len(stack) /\ Tail(stack') = Rest
            /\ stack'[1].k = "next_key" /\ ~stack'[1].first
            /\ stack'[1].acc = Top.acc \o << << Top.key[1], ret[1] >> >>
  /\ At("map_end") =>
       IF data = <<>> THEN RanOut
       ELSE IF Head(data) # MAP_DELIMITER THEN Stops("ExpectedMapDelimiter")
       ELSE data' = Tail(data) /\ Returned(ret[1])

\* The entries of an encoded map are delivered in the order of the wire,
\* equal keys included.
C11_WireOrder ==
  (Done /\ mode = "exact" /\ shape[1] = "Map") => Succeeded(value[1])

C12_SeqStep ==
  /\ AtDeserialize("Seq") =>
       /\ Requires(SEQ_DELIMITER, "ExpectedSeqDelimiter")
       /\ phase' = "run" =>
            /\ stack'[1].k = "visit_seq" /\ stack'[1].first
            /\ stack'[1].acc = <<>>
            /\ stack'[2].k = "seq_end"
            /\ SubSeq(stack', 3, Len(stack')) = Rest
  /\ At("visit_seq") =>
       IF data = <<>> THEN RanOut
       ELSE IF Head(data) = SEQ_DELIMITER
         THEN /\ data' = data /\ stack' = Rest
              /\ ret' = << Top.acc \o ret >>
              /\ Rest # <<>> /\ Rest[1].k = "seq_end"
       ELSE IF Top.first
         THEN /\ data' = data
              /\ Calls(Top.t[2], "visit_seq")
              /\ ~stack'[2].first /\ stack'[2].acc = Top.acc \o ret
       ELSE IF Head(data) # SEQ_VALUE_DELIMITER
         THEN Stops("ExpectedSeqValueDelimiter")
       ELSE /\ data' = Tail(data)
            /\ Calls(Top.t[2], "visit_seq")
            /\ ~stack'[2].first /\ stack'[2].acc = Top.acc \o ret
  /\ At("seq_end") =>
       IF data = <<>> THEN RanOut
       ELSE IF Head(data) # SEQ_DELIMITER THEN Stops("ExpectedSeqDelimiter")
       ELSE data' = Tail(data) /\ Returned(ret[1])

\* The sub-parser of a sequence has first = true until it has decoded an
\* element.
C12_FirstUntilElement ==
  \A i \in 1..Len(stack) :
    (stack[i].k = "visit_seq" /\ stack[i].first) =>
      (stack[i].acc = <<>> /\ (i = 1 => ret = <<>>))

\* C12: after the opening SEQ_DELIMITER the sub-parser starts with
\* first = true; each step ends the sequence without consuming when the
\* peeked byte is SEQ_DELIMITER, otherwise consumes and requires
\* SEQ_VALUE_DELIMITER before every element but the first (else
\* ExpectedSeqValueDelimiter), sets first = false and decodes one element;
\* after the loop the caller consumes one byte and fails with
\* ExpectedSeqDelimiter if it is not SEQ_DELIMITER.
C12_SeqProtocol == [][C12_SeqStep]_vars /\ []C12_FirstUntilElement

\* A sequence of two elements, decoded with one SEQ_VALUE_DELIMITER eaten.
C12_Witness ==
  /\ Done /\ mode = "exact" /\ shape = TSeq(TU8)
  /\ Len(value[1]) = 2 /\ input[3] = SEQ_VALUE_DELIMITER
  /\ Succeeded(value[1]) /\ data = <<>>

\* s is what is left of b after some bytes at its front were consumed.
IsSuffix(s, b) ==
  Len(s) <= Len(b) /\ s = SubSeq(b, Len(b) - Len(s) + 1, Len(b))

\* One step of a decode: the input left is a suffix of the input before;
\* a call of a deserialize method consumes a byte or more before it goes
\* on (an Option that is present hands the input to the inner value's
\* method); every iteration of a scan loop, one eat_byte, consumes one byte.
C13_Step ==
  /\ phase = "run" => IsSuffix(data', data)
  /\ (At("deserialize") /\ phase' = "run") =>
       \/ Len(data') < Len(data)
       \/ /\ Top.t[1] = "Option"
          /\ stack'[1].k = "deserialize" /\ stack'[1].t = Top.t[2]
  /\ (At("deserialize") /\ Top.t[1] \in {"Str", "Bytes"}) =>
       \A i \in 1..Len(calls') :
         (calls'[i].op = "eat_byte" /\ calls'[i].tag = "ok") =>
           Len(calls'[i].after) < Len(calls'[i].before)

\* The input left is a suffix of the buffer handed to from_bytes.
C13_Suffix == phase \in {"run", "done"} => IsSuffix(data, input)

\* A decode that is over has returned a value or an error.
C13_Returned == Done => outcome[1] \in {"Ok", "Err"}

\* How deep the shape t nests.
RECURSIVE Depth(_)
Depth(t) ==
  CASE t[1] \in {"Option", "Seq"} -> 1 + Depth(t[2])
    [] t[1] = "Map" ->
         1 + (IF Depth(t[2]) > Depth(t[3]) THEN Depth(t[2]) ELSE Depth(t[3]))
    [] t[1] = "Enum" -> 2
    [] OTHER -> 0

\* The steps a call in progress can take without consuming a byte.
Weight(f) ==
  CASE f.k = "deserialize" -> 2 * Depth(f.t) + 2
    [] f.k = "visit_seq" /\ f.first -> 2 * Depth(f.t) + 2
    [] OTHER -> 1

RECURSIVE StackWeight(_)
StackWeight(s) ==
  IF s = <<>> THEN 0 ELSE Weight(Head(s)) + StackWeight(Tail(s))

\* A step of a decode consumes input, or uses up one of the finitely many
\* steps the calls in progress can take without consuming.
C13_Decreases ==
  phase = "run" =>
    \/ Len(data') < Len(data)
    \/ Len(data') = Len(data) /\ StackWeight(stack') < StackWeight(stack)

\* The call in progress is at a point where one of the methods goes on.
C13_NotStuck ==
  phase = "run" =>
    /\ stack # <<>>
    /\ Top.k \in {"deserialize", "visit_some", "visit_seq", "seq_end",
                   "next_key", "key_end", "next_value", "value_end",
                   "map_end", "newtype_variant"}
    /\ Top.k = "deserialize" =>
         Top.t[1] \in {"Bool", "U8", "U16", "U32", "F32", "F64", "Char", "Str",
                       "Bytes", "Unit", "Option", "Seq", "Map", "Enum"}

\* C13: decode terminates on a finite buffer: every iteration of the scan
\* loops and every delivered element or entry consumes a byte or more, the
\* input left is at every step a suffix of the buffer and never grows, and
\* every decode call eventually returns a value or an error, having
\* consumed at most len(buffer) bytes.
C13_DecodeTerminates ==
  /\ [][C13_Step /\ C13_Decreases]_vars
  /\ [](C13_Suffix /\ C13_NotStuck /\ C13_Returned)

====
